---- MODULE Spec2Model ----
(***************************************************************************)
(* Model of the DamSafe stability engine (src/src/utils/calculations.ts)   *)
(* and of the way the Calculator page (src/src/pages/Calculator.tsx) calls *)
(* it.                                                                     *)
(*                                                                         *)
(* JavaScript numbers are modelled as IEEE 754 doubles: a sign, an odd      *)
(* integer of at most 53 bits and a binary exponent, together with NaN,    *)
(* Infinity, -Infinity and the value undefined.  Every operation rounds    *)
(* to nearest, ties to even; overflow and underflow are not modelled.      *)
(***************************************************************************)
EXTENDS Integers, Sequences, FiniteSets, TLC

(***************************************************************************)
(* Arbitrary precision naturals: little-endian sequences of limbs in       *)
(* 0..Base-1 without high zero limbs; <<>> is zero.  Base is a power of two *)
(* whose square fits a machine integer of the checker.  Carries are        *)
(* resolved by look-ahead so that no operator recurses on the length.      *)
(***************************************************************************)
LimbBits == 5 * 3

Base == 2 ^ LimbBits

Max2(x, y) == IF x >= y THEN x ELSE y

Min2(x, y) == IF x <= y THEN x ELSE y

SetMax(S) == CHOOSE x \in S : \A y \in S : y <= x

SetMin(S) == CHOOSE x \in S : \A y \in S : x <= y

Limb(a, i) == IF i >= 1 /\ i <= Len(a) THEN a[i] ELSE 0

NTrim(a) ==
    IF a = <<>> THEN <<>>
    ELSE IF a[Len(a)] # 0 THEN a
    ELSE LET nz == {i \in 1..Len(a) : a[i] # 0}
         IN  IF nz = {} THEN <<>> ELSE SubSeq(a, 1, SetMax(nz))

NFromInt(k) ==
    NTrim(<<k % Base, (k \div Base) % Base, k \div (Base * Base)>>)

NAdd(a, b) ==
    LET n == Max2(Len(a), Len(b))
        s == [i \in 1..n |-> Limb(a, i) + Limb(b, i)]
        cin(i) == IF i = 1 THEN FALSE
                  ELSE IF s[i - 1] # Base - 1 THEN s[i - 1] >= Base
                  ELSE \E j \in 1..(i - 2) :
                          /\ s[j] >= Base
                          /\ \A k \in (j + 1)..(i - 2) : s[k] = Base - 1
    IN  NTrim([i \in 1..(n + 1) |->
                 IF i <= n THEN (s[i] + (IF cin(i) THEN 1 ELSE 0)) % Base
                 ELSE (IF cin(i) THEN 1 ELSE 0)])

\* a - b, for a >= b
NSub(a, b) ==
    LET n == Len(a)
        s == [i \in 1..n |-> a[i] - Limb(b, i)]
        bin(i) == IF i = 1 THEN FALSE
                  ELSE IF s[i - 1] # 0 THEN s[i - 1] < 0
                  ELSE \E j \in 1..(i - 2) :
                          /\ s[j] < 0
                          /\ \A k \in (j + 1)..(i - 2) : s[k] = 0
    IN  NTrim([i \in 1..n |->
                 (s[i] - (IF bin(i) THEN 1 ELSE 0) + Base) % Base])

\* -1, 0, 1 as a < b, a = b, a > b
NCmp(a, b) ==
    IF Len(a) < Len(b) THEN -1
    ELSE IF Len(a) > Len(b) THEN 1
    ELSE LET df == {i \in 1..Len(a) : a[i] # b[i]}
         IN  IF df = {} THEN 0
             ELSE IF a[SetMax(df)] < b[SetMax(df)] THEN -1 ELSE 1

NShiftLimbs(a, q) ==
    IF a = <<>> THEN <<>> ELSE [i \in 1..(Len(a) + q) |-> IF i <= q THEN 0 ELSE a[i - q]]

\* number of trailing zero bits of a small positive integer
SmallV2(x) == SetMax({k \in 0..LimbBits : x % (2 ^ k) = 0})

\* number of bits of a small integer 0 <= x < Base
SmallBits(x) == SetMin({k \in 0..LimbBits : x < 2 ^ k})

\* number of trailing zero bits of a # 0
NV2(a) ==
    LET f == SetMin({i \in 1..Len(a) : a[i] # 0})
    IN  LimbBits * (f - 1) + SmallV2(a[f])

\* number of bits of a
NBits(a) ==
    IF a = <<>> THEN 0 ELSE LimbBits * (Len(a) - 1) + SmallBits(a[Len(a)])

\* bit i of a, bit 0 being the lowest
NBit(a, i) == (Limb(a, i \div LimbBits + 1) \div (2 ^ (i % LimbBits))) % 2

\* floor(a / 2^k)
NShr(a, k) ==
    LET q == k \div LimbBits
        r == k % LimbBits
        n == Len(a) - q
    IN  IF a = <<>> \/ k = 0 THEN a
        ELSE NTrim([i \in 1..n |->
                      (a[i + q] \div (2 ^ r))
                      + (Limb(a, i + q + 1) % (2 ^ r)) * (2 ^ (LimbBits - r))])

(***************************************************************************)
(* Every computation on numbers is a term, a record whose field k names    *)
(* the operation, and Val is the one evaluator of terms.  The operators    *)
(* below that compute with long naturals hand their sub-computations back  *)
(* to Val as terms.                                                        *)
(***************************************************************************)
RECURSIVE Val(_)

Term(k, a, b) == [k |-> k, a |-> a, b |-> b]

NMulSmall(a, m) ==
    IF m = 0 \/ a = <<>> THEN <<>>
    ELSE LET p == [i \in 1..Len(a) |-> a[i] * m]
         IN  Val(Term("NAdd",
                      [i \in 1..Len(a) |-> p[i] % Base],
                      [i \in 1..(Len(a) + 1) |->
                          IF i = 1 THEN 0 ELSE p[i - 1] \div Base]))

\* a * (limbs lo..hi of b), by halving the range
NMulRange(a, b, lo, hi) ==
    IF lo = hi THEN NShiftLimbs(Val(Term("NMulSmall", a, b[lo])), lo - 1)
    ELSE Val(Term("NAdd",
                  Val([k |-> "NMulRange", a |-> a, b |-> b,
                       lo |-> lo, hi |-> (lo + hi) \div 2]),
                  Val([k |-> "NMulRange", a |-> a, b |-> b,
                       lo |-> (lo + hi) \div 2 + 1, hi |-> hi])))

NMul(a, b) ==
    IF a = <<>> \/ b = <<>> THEN <<>>
    ELSE IF a = <<1>> THEN b
    ELSE IF b = <<1>> THEN a
    ELSE Val([k |-> "NMulRange",
              a |-> IF Len(a) >= Len(b) THEN a ELSE b,
              b |-> IF Len(a) >= Len(b) THEN b ELSE a,
              lo |-> 1, hi |-> Min2(Len(a), Len(b))])

\* a * 2^s
NShl(a, s) ==
    NShiftLimbs(Val(Term("NMulSmall", a, 2 ^ (s % LimbBits))), s \div LimbBits)

(***************************************************************************)
(* Long division in base Base of a by b # 0, the highest limb of b being   *)
(* at least Base / 2.  A digit of the quotient is estimated from the two   *)
(* highest limbs of the running remainder and the highest limb of b; the   *)
(* estimate exceeds the digit by at most 2.                                *)
(***************************************************************************)
NDivEst(b, r) ==
    Min2(Base - 1,
         (Limb(r, Len(b) + 1) * Base + Limb(r, Len(b))) \div b[Len(b)])

NDivDigit(b, r, est) ==
    SetMax({c \in Max2(0, est - 2)..est :
               NCmp(Val(Term("NMulSmall", b, c)), r) <= 0})

NDivNext(a, b, i, r, q, digit) ==
    Val([k |-> "NDivStep", a |-> a, b |-> b, i |-> i - 1,
         r |-> NSub(r, Val(Term("NMulSmall", b, digit))), q |-> <<digit>> \o q])

NDivWith(a, b, i, r, q) == NDivNext(a, b, i, r, q, NDivDigit(b, r, NDivEst(b, r)))

\* limbs i, i-1, .. 1 of a are still to be divided; r is the remainder and q
\* the quotient of the limbs above them
NDivStep(a, b, i, r, q) ==
    IF i = 0 THEN [q |-> NTrim(q), r |-> r]
    ELSE NDivWith(a, b, i, NTrim(<<a[i]>> \o r), q)

\* quotient q of a by b # 0, and a remainder r that is zero exactly when
\* b divides a
NDivMod(a, b) ==
    Val([k |-> "NDivStep",
         a |-> Val(Term("NShl", a, LimbBits - SmallBits(b[Len(b)]))),
         b |-> Val(Term("NShl", b, LimbBits - SmallBits(b[Len(b)]))),
         i |-> Len(Val(Term("NShl", a, LimbBits - SmallBits(b[Len(b)])))),
         r |-> <<>>, q |-> <<>>])

(***************************************************************************)
(* JavaScript values of type number | undefined.  A number is an IEEE 754  *)
(* double:                                                                 *)
(*   k = "fin"   : (-1)^neg * n * 2^e, with n an odd natural of at most    *)
(*                 Precision bits, or n = 0 and e = 0                      *)
(*   k = "inf"   : Infinity (neg = FALSE) or -Infinity (neg = TRUE)        *)
(*   k = "nan"   : NaN                                                     *)
(*   k = "undef" : undefined                                               *)
(* Every arithmetic operation rounds its exact result to the nearest       *)
(* double, ties to even.  The range of the exponent is not bounded         *)
(* (no overflow, no subnormal numbers) and the sign of zero is not         *)
(* modelled.                                                               *)
(***************************************************************************)
Precision == 53

Zero == [k |-> "fin", neg |-> FALSE, n |-> <<>>, e |-> 0]

NaN == [k |-> "nan", neg |-> FALSE, n |-> <<>>, e |-> 0]

Infinity == [k |-> "inf", neg |-> FALSE, n |-> <<>>, e |-> 0]

NegInfinity == [k |-> "inf", neg |-> TRUE, n |-> <<>>, e |-> 0]

undefined == [k |-> "undef", neg |-> FALSE, n |-> <<>>, e |-> 0]

Inf(neg) == IF neg THEN NegInfinity ELSE Infinity

\* the integer 0 < i < Base
Num(i) ==
    [k |-> "fin", neg |-> FALSE, n |-> <<i \div (2 ^ SmallV2(i))>>,
     e |-> SmallV2(i)]

\* (-1)^neg * n * 2^e, which is a double, with n made odd
Canon(neg, n, e) ==
    IF n = <<>> THEN Zero
    ELSE [k |-> "fin", neg |-> neg, n |-> NShr(n, NV2(n)), e |-> e + NV2(n)]

\* the s low bits of n are more than half of 2^s, or half of it and bit s odd
RoundsUp(n, s) ==
    NBit(n, s - 1) = 1 /\ (NV2(n) < s - 1 \/ NBit(n, s) = 1)

RoundAt(neg, n, e, s) ==
    Canon(neg,
          IF RoundsUp(n, s) THEN Val(Term("NAdd", NShr(n, s), <<1>>))
          ELSE NShr(n, s),
          e + s)

\* the double nearest to (-1)^neg * n * 2^e, ties to even
Round(neg, n, e) ==
    IF NBits(n) <= Precision THEN Canon(neg, n, e)
    ELSE RoundAt(neg, n, e, NBits(n) - Precision)

Rounded(neg, n, e) == Val([k |-> "Round", neg |-> neg, n |-> n, e |-> e])

\* -1, 0, 1 as |x| < |y|, |x| = |y|, |x| > |y|, for finite x # 0 and y # 0
FinCmpMag(x, y) ==
    IF NBits(x.n) + x.e < NBits(y.n) + y.e THEN -1
    ELSE IF NBits(x.n) + x.e > NBits(y.n) + y.e THEN 1
    ELSE NCmp(Val(Term("NShl", x.n, x.e - Min2(x.e, y.e))),
              Val(Term("NShl", y.n, y.e - Min2(x.e, y.e))))

\* -1, 0, 1 as x < y, x = y, x > y, for finite x and y
FinCmp(x, y) ==
    IF x.n = <<>> /\ y.n = <<>> THEN 0
    ELSE IF x.n = <<>> THEN (IF y.neg THEN 1 ELSE -1)
    ELSE IF y.n = <<>> THEN (IF x.neg THEN -1 ELSE 1)
    ELSE IF x.neg # y.neg THEN (IF x.neg THEN -1 ELSE 1)
    ELSE (IF x.neg THEN -1 ELSE 1) * FinCmpMag(x, y)

FinNeg(x) == IF x.n = <<>> THEN x ELSE [x EXCEPT !.neg = ~x.neg]

\* x + y from the integers a and b with |x| = a * 2^E and |y| = b * 2^E
FinSum(x, y, E, a, b) ==
    IF x.neg = y.neg THEN Rounded(x.neg, Val(Term("NAdd", a, b)), E)
    ELSE IF NCmp(a, b) = 0 THEN Zero
    ELSE IF NCmp(a, b) > 0 THEN Rounded(x.neg, NSub(a, b), E)
    ELSE Rounded(y.neg, NSub(b, a), E)

FinAddAt(x, y, E) ==
    FinSum(x, y, E, Val(Term("NShl", x.n, x.e - E)),
           Val(Term("NShl", y.n, y.e - E)))

FinAdd(x, y) ==
    IF x.n = <<>> THEN y
    ELSE IF y.n = <<>> THEN x
    ELSE FinAddAt(x, y, Min2(x.e, y.e))

FinMul(x, y) == Rounded(x.neg # y.neg, Val(Term("NMul", x.n, y.n)), x.e + y.e)

\* the quotient with a sticky bit below it: 2 * q, plus 1 if r # 0
FinQuot(neg, qr, e) ==
    Rounded(neg,
            Val(Term("NAdd", Val(Term("NShl", qr.q, 1)),
                     IF qr.r = <<>> THEN <<>> ELSE <<1>>)),
            e - 1)

\* x / y from the quotient of x.n * 2^s by y.n, which has more than
\* Precision + 1 bits
FinDivAt(x, y, s) ==
    FinQuot(x.neg # y.neg, NDivMod(Val(Term("NShl", x.n, s)), y.n),
            x.e - y.e - s)

\* x / y for finite x and finite y # 0
FinDiv(x, y) ==
    IF x.n = <<>> THEN Zero
    ELSE IF y.n = <<1>>
    THEN [x EXCEPT !.neg = (x.neg # y.neg), !.e = x.e - y.e]
    ELSE FinDivAt(x, y, Max2(0, Precision + 2 + NBits(y.n) - NBits(x.n)))

IsFin(x) == x.k = "fin"

\* x === 0, for a value x
IsZero(x) == x.k = "fin" /\ x.n = <<>>

IsNaN(x) == x.k = "nan"

\* ToNumber: undefined becomes NaN
ToNumber(x) == IF x.k = "undef" THEN NaN ELSE x

\* ToBoolean of a value: undefined, NaN and 0 are falsy
Truthy(x) == ~(x.k = "undef" \/ x.k = "nan" \/ IsZero(x))

\* a destructuring default, { field = dflt }, of a value
Default(x, dflt) == IF x.k = "undef" THEN dflt ELSE x

\* the arithmetic of JavaScript numbers, on values that ToNumber returned
NumAdd(x, y) ==
    IF x.k = "nan" \/ y.k = "nan" THEN NaN
    ELSE IF x.k = "inf" /\ y.k = "inf" THEN (IF x.neg = y.neg THEN x ELSE NaN)
    ELSE IF x.k = "inf" THEN x
    ELSE IF y.k = "inf" THEN y
    ELSE FinAdd(x, y)

NumNeg(x) ==
    IF x.k = "nan" THEN NaN
    ELSE IF x.k = "inf" THEN Inf(~x.neg)
    ELSE FinNeg(x)

NumMul(x, y) ==
    IF x.k = "nan" \/ y.k = "nan" THEN NaN
    ELSE IF x.k = "inf" \/ y.k = "inf"
    THEN (IF IsZero(x) \/ IsZero(y) THEN NaN ELSE Inf(x.neg # y.neg))
    ELSE FinMul(x, y)

NumDiv(x, y) ==
    IF x.k = "nan" \/ y.k = "nan" THEN NaN
    ELSE IF x.k = "inf" THEN (IF y.k = "inf" THEN NaN ELSE Inf(x.neg # y.neg))
    ELSE IF y.k = "inf" THEN Zero
    ELSE IF IsZero(y) THEN (IF IsZero(x) THEN NaN ELSE Inf(x.neg))
    ELSE FinDiv(x, y)

\* Math.abs
NumAbs(x) == IF x.k = "nan" THEN NaN ELSE [x EXCEPT !.neg = FALSE]

\* -1, 0, 1 for numbers other than NaN
Cmp(x, y) ==
    IF x.k = "inf" /\ y.k = "inf"
    THEN (IF x.neg = y.neg THEN 0 ELSE IF x.neg THEN -1 ELSE 1)
    ELSE IF x.k = "inf" THEN (IF x.neg THEN -1 ELSE 1)
    ELSE IF y.k = "inf" THEN (IF y.neg THEN 1 ELSE -1)
    ELSE FinCmp(x, y)

\* the relation rel (a set of Cmp outcomes) between two numbers; NaN is
\* related to nothing
NumRel(x, y, rel) == x.k # "nan" /\ y.k # "nan" /\ Val(Term("cmp", x, y)) \in rel

\* x === y on number | undefined
ValStrictEq(x, y) ==
    IF x.k = "undef" \/ y.k = "undef" THEN x.k = y.k
    ELSE NumRel(x, y, {0})

\* x || y, from the value of x and the term y
ValOr(x, y) == IF Truthy(x) THEN x ELSE Val(y)

\* the decimal literal p / q, for integers 0 < p < Base and 0 < q < Base
Q(p, q) == Term("/", Num(p), Num(q))

\* the terms of the JavaScript operators: x + y, -x, x - y, x * y, x / y,
\* Math.abs(x), x < y, x > y, x <= y, x === y, !c, x || y, c ? x : y
Add(x, y) == Term("+", x, y)

Neg(x) == [k |-> "neg", a |-> x]

Sub(x, y) == Add(x, Neg(y))

Mul(x, y) == Term("*", x, y)

Div(x, y) == Term("/", x, y)

Abs(x) == [k |-> "abs", a |-> x]

Lt(x, y) == Term("<", x, y)

Gt(x, y) == Lt(y, x)

Le(x, y) == Term("<=", x, y)

StrictEq(x, y) == Term("===", x, y)

Not(c) == [k |-> "!", a |-> c]

OrElse(x, y) == Term("||", x, y)

Cond(c, x, y) == [k |-> "?:", c |-> c, a |-> x, b |-> y]

\* the value of a term: a number, undefined, a Boolean or a long natural
Val(t) ==
    CASE t.k \in {"fin", "inf", "nan", "undef"} -> t
      [] t.k = "+" -> NumAdd(ToNumber(Val(t.a)), ToNumber(Val(t.b)))
      [] t.k = "neg" -> NumNeg(ToNumber(Val(t.a)))
      [] t.k = "*" -> NumMul(ToNumber(Val(t.a)), ToNumber(Val(t.b)))
      [] t.k = "/" -> NumDiv(ToNumber(Val(t.a)), ToNumber(Val(t.b)))
      [] t.k = "abs" -> NumAbs(ToNumber(Val(t.a)))
      [] t.k = "<" -> NumRel(ToNumber(Val(t.a)), ToNumber(Val(t.b)), {-1})
      [] t.k = "<=" -> NumRel(ToNumber(Val(t.a)), ToNumber(Val(t.b)), {-1, 0})
      [] t.k = "===" -> ValStrictEq(Val(t.a), Val(t.b))
      [] t.k = "!" -> ~Val(t.a)
      [] t.k = "||" -> ValOr(Val(t.a), t.b)
      [] t.k = "?:" -> Val(IF Val(t.c) THEN t.a ELSE t.b)
      [] t.k = "cmp" -> Cmp(t.a, t.b)
      [] t.k = "Round" -> Round(t.neg, t.n, t.e)
      [] t.k = "NAdd" -> NAdd(t.a, t.b)
      [] t.k = "NMulSmall" -> NMulSmall(t.a, t.b)
      [] t.k = "NMulRange" -> NMulRange(t.a, t.b, t.lo, t.hi)
      [] t.k = "NMul" -> NMul(t.a, t.b)
      [] t.k = "NShl" -> NShl(t.a, t.b)
      [] t.k = "NDivStep" -> NDivStep(t.a, t.b, t.i, t.r, t.q)

\* the values of the fields of a record of terms
Values(r) == [f \in DOMAIN r |-> Val(r[f])]


(***************************************************************************)
(* The engine: src/src/utils/calculations.ts.  The fields of an inputs      *)
(* record are values; what the functions compute from them are terms.      *)
(***************************************************************************)
One == Num(1)

\* a faulty variant: halving that divides by one
TwoAsOne == Num(1)

Two == Num(2)

Three == Num(3)

\* the literals 9.81 and 1000 of the density and mass conversions
Gravity == Q(981, 100)

Thousand == Num(1000)

\* a conversion that takes every other unit for the unit it knows
convertWaterDensityAnyPair(density, fromUnit, toUnit) ==
    IF fromUnit = toUnit THEN density
    ELSE IF toUnit = "kN/m3"
    THEN Div(Mul(density, Gravity), Thousand)
    ELSE Div(Mul(density, Thousand), Gravity)

convertWaterDensity(density, fromUnit, toUnit) ==
    IF fromUnit = toUnit THEN density
    ELSE IF fromUnit = "kg/m3" /\ toUnit = "kN/m3"
    THEN Div(Mul(density, Gravity), Thousand)
    ELSE IF fromUnit = "kN/m3" /\ toUnit = "kg/m3"
    THEN Div(Mul(density, Thousand), Gravity)
    ELSE density

forceToMass(force, unitSystem) ==
    IF unitSystem = "metric"
    THEN [mass |-> Div(Mul(force, Thousand), Gravity), unit |-> "kg"]
    ELSE [mass |-> force, unit |-> "lb"]

getDefaultWaterDensity(unit) == IF unit = "kN/m3" THEN Gravity ELSE Thousand

\* a faulty variant: only an absent crest width counts as missing
CrestWidthMissingIfAbsent(inputs) ==
    inputs.structureType = "trapezoid" /\ inputs.crestWidth.k = "undef"

\* a faulty variant: the crest width is not looked at
CrestWidthNeverMissing(inputs) == FALSE

\* calculateVolume, calculateCenterOfGravity: the trapezoid case throws
\* 'Crest width required for trapezoid' when crestWidth is falsy
CrestWidthMissing(inputs) ==
    inputs.structureType = "trapezoid" /\ ~Truthy(inputs.crestWidth)

\* a volume whose trapezoid is not halved
calculateVolumeUnhalved(inputs) ==
    CASE inputs.structureType = "rectangle" ->
           Mul(inputs.baseWidth, inputs.height)
      [] inputs.structureType = "triangle" ->
           Div(Mul(inputs.baseWidth, inputs.height), Two)
      [] inputs.structureType = "trapezoid" ->
           Mul(Add(inputs.baseWidth, inputs.crestWidth), inputs.height)

calculateVolume(inputs) ==
    CASE inputs.structureType = "rectangle" ->
           Mul(inputs.baseWidth, inputs.height)
      [] inputs.structureType = "triangle" ->
           Div(Mul(inputs.baseWidth, inputs.height), Two)
      [] inputs.structureType = "trapezoid" ->
           Mul(Div(Add(inputs.baseWidth, inputs.crestWidth), Two), inputs.height)

calculateCenterOfGravity(inputs) ==
    CASE inputs.structureType = "rectangle" -> Div(inputs.baseWidth, Two)
      [] inputs.structureType = "triangle" -> Div(inputs.baseWidth, Three)
      [] inputs.structureType = "trapezoid" ->
           Mul(Div(Add(inputs.baseWidth, Mul(Two, inputs.crestWidth)),
                   Mul(Three, Add(inputs.baseWidth, inputs.crestWidth))),
               inputs.baseWidth)

calculateUpliftArea(inputs) ==
    LET heelUplift == Default(inputs.heelUplift, Zero)
        toeUplift  == Default(inputs.toeUplift, Zero)
    IN  IF IsZero(heelUplift) /\ IsZero(toeUplift) THEN Zero
        ELSE Mul(Div(Add(heelUplift, toeUplift), Two), inputs.baseWidth)

\* a faulty variant: the density used as given, whatever its unit
calculateHydrostaticPressureAsGiven(inputs) ==
    Div(Mul(inputs.waterDensity, Mul(inputs.waterLevel, inputs.waterLevel)), Two)

calculateHydrostaticPressure(inputs) ==
    LET densityInKN ==
            IF inputs.waterDensityUnit = "kg/m3"
            THEN convertWaterDensity(inputs.waterDensity, "kg/m3", "kN/m3")
            ELSE inputs.waterDensity
    IN  Div(Mul(densityInKN, Mul(inputs.waterLevel, inputs.waterLevel)), Two)

\* needsFrictionCalculation defaults to true only when the argument is absent
calculateSlidingSafetyFactor(verticalReaction, horizontalReaction, frictionCoefficient, needsFrictionCalculation) ==
    IF needsFrictionCalculation = "false" \/ frictionCoefficient.k = "undef"
    THEN undefined
    ELSE Div(Mul(frictionCoefficient, verticalReaction), horizontalReaction)

calculateOverturningFactor(rightingMoment, overturningMoment) ==
    Div(rightingMoment,
        Cond(StrictEq(overturningMoment, Zero), One, overturningMoment))

\* a faulty variant: the two reactions exchanged
solveForFrictionCoefficientSwapped(verticalReaction, horizontalReaction, targetSafetyFactor) ==
    Div(Mul(targetSafetyFactor, verticalReaction), horizontalReaction)

solveForFrictionCoefficient(verticalReaction, horizontalReaction, targetSafetyFactor) ==
    Div(Mul(targetSafetyFactor, horizontalReaction), verticalReaction)

\* defined for inputs on which calculateVolume does not throw; a record of
\* terms
calculateIntermediateResults(inputs) ==
    LET volume == calculateVolume(inputs)
        selfWeight == Mul(inputs.concreteDensity, volume)
        centerOfGravity == calculateCenterOfGravity(inputs)
        upliftArea == calculateUpliftArea(inputs)
        waterDensityInKN ==
            IF inputs.waterDensityUnit = "kg/m3"
            THEN convertWaterDensity(inputs.waterDensity, "kg/m3", "kN/m3")
            ELSE inputs.waterDensity
        hydrostaticUplift == Mul(waterDensityInKN, upliftArea)
        hydrostaticPressure == calculateHydrostaticPressure(inputs)
        verticalReaction == Sub(selfWeight, hydrostaticUplift)
        horizontalReaction == hydrostaticPressure
        rightingMoment == Mul(selfWeight, centerOfGravity)
        pressureMoment == Mul(hydrostaticPressure, Div(inputs.waterLevel, Three))
        upliftMoment == Div(Mul(hydrostaticUplift, inputs.baseWidth), Two)
        overturningMoment == Add(pressureMoment, upliftMoment)
        locationOfRy ==
            Cond(Not(StrictEq(verticalReaction, Zero)),
                 Div(Sub(rightingMoment, overturningMoment), verticalReaction),
                 Zero)
    IN  [volume |-> volume,
         selfWeight |-> selfWeight,
         centerOfGravity |-> centerOfGravity,
         hydrostaticUplift |-> hydrostaticUplift,
         hydrostaticPressure |-> hydrostaticPressure,
         verticalReaction |-> verticalReaction,
         horizontalReaction |-> horizontalReaction,
         rightingMoment |-> rightingMoment,
         overturningMoment |-> overturningMoment,
         locationOfRy |-> locationOfRy,
         pressureMoment |-> pressureMoment,
         upliftMoment |-> upliftMoment]


(***************************************************************************)
(* One call of calculateDamStability.  pc is the position in the call: the *)
(* entry, one of the two bisection loops (one iteration per step), the     *)
(* statics on modifiedInputs that build the result, and the outcome.       *)
(***************************************************************************)
VARIABLES
    inputs,           \* the record the caller passes
    pc,               \* "call", "solveForWaterLevel", "solveForBaseWidth",
                      \* "statics", "returned", "threw"
    low, high, mid,   \* the locals of the running bisection loop
    iterations,
    safFactor,        \* the factor the loop computed last, and where
    testInputs,
    modifiedInputs,   \* the locals of calculateDamStability
    solvedParameter,
    calculationSteps,
    results,          \* the record returned
    form,             \* the state of the Calculator component, when the
                      \* call comes from its form
    probe             \* a function applied on its own: its arguments and
                      \* its result

vars == <<inputs, pc, low, high, mid, iterations, safFactor, testInputs,
          modifiedInputs, solvedParameter, calculationSteps, results,
          form, probe>>

\* what a call of the engine does not touch
outside == <<form, probe>>

\* a faulty variant: twice the iterations
maxIterationsDoubled == 2 * 100

maxIterations == 100

tolerance == Q(1, 1000)

NoParameter == [name |-> "undefined", value |-> undefined]

NoResults == [returned |-> FALSE]

NoInputs == [structureType |-> "undefined"]

\* the engine called on its own, not from the form
NoForm == [mounted |-> FALSE]

NoProbe == [fn |-> "none"]

solveForOf(inp) == IF inp.solveFor = "undefined" THEN "none" ELSE inp.solveFor

\* solveFor !== 'none' && targetSafetyFactor
SolveActive(inp) == solveForOf(inp) # "none" /\ Truthy(inp.targetSafetyFactor)

lengthUnit(inp) == IF inp.unitSystem = "metric" THEN "m" ELSE "ft"

forceUnit(inp) == IF inp.unitSystem = "metric" THEN "kN" ELSE "lb"

momentUnit(inp) == IF inp.unitSystem = "metric" THEN "kNm" ELSE "lb-ft"

\* lengthUnit followed by the superscript 2
areaUnit(inp) == IF inp.unitSystem = "metric" THEN "m2" ELSE "ft2"

\* a derivation step: its title, value and unit, and the alternate value
\* and unit that only the self-weight step carries; the formula and the
\* explanation, which are display text, are left out
StepWith(title, value, unit, alternateValue, alternateUnit) ==
    [title |-> title, value |-> value, unit |-> unit,
     alternateValue |-> alternateValue, alternateUnit |-> alternateUnit]

Step(title, value, unit) == StepWith(title, value, unit, undefined, "undefined")

\* a faulty variant: the step carries the target instead of the value solved
SolveStepOfTarget(inp, name, value) ==
    Step("Solve for Required Parameter", inp.targetSafetyFactor, lengthUnit(inp))

\* the derivation step pushed by the branch that solved `name`
SolveStep(inp, name, value) ==
    CASE name = "waterLevel" ->
           Step("Solve for Required Water Level", value, lengthUnit(inp))
      [] name = "baseWidth" ->
           Step("Solve for Required Base Width", value, lengthUnit(inp))
      [] name = "frictionCoefficient" ->
           Step("Solve for Required Friction Coefficient", value, "")

\* if (needsFrictionCalculation && frictionCoefficient !== undefined)
SlidingWanted(inp) ==
    inp.needsFrictionCalculation = "true" /\ inp.frictionCoefficient.k # "undef"

\* a faulty variant: the self-weight step valued by the mass
StandardStepsValuedByMass(inp, ir, mass, safetyFactorSliding, safetyFactorOverturning) ==
    << Step("Calculate Self Weight (W)", mass.mass, forceUnit(inp)),
       Step("Calculate Factor of Safety against Overturning",
            safetyFactorOverturning, "") >>

\* a faulty variant: the overturning step pushed before the volume step
StandardStepsOverturningFirst(inp, ir, mass, safetyFactorSliding, safetyFactorOverturning) ==
    << Step("Calculate Factor of Safety against Overturning",
            safetyFactorOverturning, ""),
       Step("Calculate Dam Volume", ir.volume, areaUnit(inp)) >>

\* the steps pushed from the volume step to the overturning step; ir holds
\* the values of calculateIntermediateResults(modifiedInputs)
StandardSteps(inp, ir, mass, safetyFactorSliding, safetyFactorOverturning) ==
    << Step("Calculate Dam Volume", ir.volume, areaUnit(inp)),
       StepWith("Calculate Self Weight (W)", ir.selfWeight, forceUnit(inp),
                mass.mass, mass.unit),
       Step("Calculate Hydrostatic Uplift", ir.hydrostaticUplift, forceUnit(inp)),
       Step("Calculate Hydrostatic Pressure", ir.hydrostaticPressure, forceUnit(inp)),
       Step("Calculate Vertical Reaction (Ry)", ir.verticalReaction, forceUnit(inp)),
       Step("Calculate Horizontal Reaction (Rx)", ir.horizontalReaction, forceUnit(inp)),
       Step("Calculate Center of Gravity", ir.centerOfGravity, lengthUnit(inp)),
       Step("Calculate Righting Moment (RM)", ir.rightingMoment, momentUnit(inp)),
       Step("Calculate Pressure Moment", ir.pressureMoment, momentUnit(inp)) >> \o
    (IF Val(Gt(ir.hydrostaticUplift, Zero))
     THEN << Step("Calculate Uplift Moment", ir.upliftMoment, momentUnit(inp)) >>
     ELSE << >>) \o
    << Step("Calculate Total Overturning Moment (OM)", ir.overturningMoment,
            momentUnit(inp)),
       Step("Calculate Location of Resultant (Ry)", ir.locationOfRy,
            lengthUnit(inp)) >> \o
    (IF SlidingWanted(inp)
     THEN << Step("Calculate Factor of Safety against Sliding",
                  safetyFactorSliding, "") >>
     ELSE << >>) \o
    << Step("Calculate Factor of Safety against Overturning",
            safetyFactorOverturning, "") >>

\* calculateDamStability from the friction solve to the return statement,
\* given what the call computed before: the locals mod, solved and steps as
\* the solve-for branches left them, the values ir of the intermediate
\* results, and the values of the four calls made on them
Assemble(inp, mod, solved, steps, ir, solvedFriction, mass, safetyFactorSliding, safetyFactorOverturning) ==
    LET solveFriction ==
            solveForOf(inp) = "frictionCoefficient" /\ Truthy(inp.targetSafetyFactor)
        solved2 == IF solveFriction
                   THEN [name |-> "frictionCoefficient", value |-> solvedFriction]
                   ELSE solved
        steps3 ==
            (IF solveFriction
             THEN Append(steps, SolveStep(inp, "frictionCoefficient", solvedFriction))
             ELSE steps)
            \o StandardSteps(inp, ir, mass, safetyFactorSliding, safetyFactorOverturning)
    IN  [modifiedInputs |->
            IF solveFriction
            THEN [mod EXCEPT !.frictionCoefficient = solvedFriction]
            ELSE mod,
         solvedParameter |-> solved2,
         calculationSteps |-> steps3,
         results |->
           [returned |-> TRUE,
            selfWeight |-> ir.selfWeight,
            hydrostaticUplift |-> ir.hydrostaticUplift,
            hydrostaticPressure |-> ir.hydrostaticPressure,
            verticalReaction |-> ir.verticalReaction,
            horizontalReaction |-> ir.horizontalReaction,
            rightingMoment |-> ir.rightingMoment,
            overturningMoment |-> ir.overturningMoment,
            locationOfRy |-> ir.locationOfRy,
            safetyFactorSliding |-> safetyFactorSliding,
            safetyFactorOverturning |-> safetyFactorOverturning,
            calculationSteps |-> steps3,
            solvedParameter |-> solved2,
            massMeasurements |->
                [selfWeightMass |-> mass.mass, massUnit |-> mass.unit]]]

\* the four calls made on the intermediate results ir
Finish(inp, mod, solved, steps, ir) ==
    Assemble(inp, mod, solved, steps, ir,
             Val(solveForFrictionCoefficient(ir.verticalReaction,
                                             ir.horizontalReaction,
                                             inp.targetSafetyFactor)),
             [forceToMass(ir.selfWeight, inp.unitSystem) EXCEPT !.mass = Val(@)],
             IF SlidingWanted(inp)
             THEN Val(calculateSlidingSafetyFactor(ir.verticalReaction,
                                                   ir.horizontalReaction,
                                                   inp.frictionCoefficient,
                                                   inp.needsFrictionCalculation))
             ELSE undefined,
             Val(calculateOverturningFactor(ir.rightingMoment, ir.overturningMoment)))

\* what calculateDamStability(inp) returns when its solve-for branches left
\* the locals mod, solved and steps
Returned(inp, mod, solved, steps) ==
    Finish(inp, mod, solved, steps, Values(calculateIntermediateResults(mod)))

\* the call returns `out`
Return(out) ==
    /\ pc' = "returned"
    /\ modifiedInputs' = out.modifiedInputs
    /\ solvedParameter' = out.solvedParameter
    /\ calculationSteps' = out.calculationSteps
    /\ results' = out.results

\* a faulty variant: modifiedInputs is the caller's record itself
OriginalAliased(own, copy) == copy

\* let modifiedInputs = { ...inputs }: the record the caller passed, after
\* the call has written to the copy `copy`; the copy is another object, so
\* the writes do not reach it
Original(own, copy) == own

\* a solver returned `value` for `name`: the branch substitutes it, records
\* it and pushes its step
Solved(name, value) ==
    /\ pc' = "statics"
    /\ modifiedInputs' = IF name = "waterLevel"
                         THEN [inputs EXCEPT !.waterLevel = value]
                         ELSE [inputs EXCEPT !.baseWidth = value]
    /\ solvedParameter' = [name |-> name, value |-> value]
    /\ calculationSteps' = << SolveStep(inputs, name, value) >>
    /\ UNCHANGED results

\* entry of calculateDamStability, up to the first loop iteration, the
\* statics or the throw
calculateDamStability ==
    /\ pc = "call"
    /\ UNCHANGED outside
    /\ UNCHANGED <<inputs, safFactor, testInputs, solvedParameter,
                   calculationSteps, results>>
    /\ IF CrestWidthMissing(inputs)
       THEN /\ pc' = "threw"
            /\ UNCHANGED <<low, high, mid, iterations, modifiedInputs>>
       ELSE IF SolveActive(inputs) /\ solveForOf(inputs) = "waterLevel"
       THEN /\ pc' = "solveForWaterLevel"
            /\ low' = Zero
            /\ high' = inputs.height
            /\ mid' = Val(Div(Add(low', high'), Two))
            /\ iterations' = 0
            /\ modifiedInputs' = inputs
       ELSE IF SolveActive(inputs) /\ solveForOf(inputs) = "baseWidth"
       THEN /\ pc' = "solveForBaseWidth"
            /\ low' = Val(Q(1, 10))
            /\ high' = Val(Mul(inputs.height, Num(10)))
            /\ mid' = Val(Div(Add(low', high'), Two))
            /\ iterations' = 0
            /\ modifiedInputs' = inputs
       ELSE /\ pc' = "statics"
            /\ modifiedInputs' = inputs
            /\ UNCHANGED <<low, high, mid, iterations>>

\* a faulty variant: the uplift moment left out of the denominator
FactorOfPressureOnly(ir) == Div(ir.rightingMoment, OrElse(ir.pressureMoment, One))

\* rightingMoment / (overturningMoment || 1) at the loop's test inputs
FactorOf(ir) == Div(ir.rightingMoment, OrElse(ir.overturningMoment, One))

\* the factor at the loop's test inputs
SolverFactor(test) == FactorOf(calculateIntermediateResults(test))

\* a faulty variant: the difference compared without Math.abs
CloseEnoughSigned(factor, target) == Lt(Sub(factor, target), tolerance)

\* Math.abs(safFactor - targetSafetyFactor) < tolerance
CloseEnough(factor, target) == Lt(Abs(Sub(factor, target)), tolerance)

\* one pass through the while loop of solveForWaterLevel, or its exit
solveForWaterLevel ==
    /\ pc = "solveForWaterLevel"
    /\ UNCHANGED outside
    /\ IF iterations < maxIterations
       THEN /\ testInputs' = [inputs EXCEPT !.waterLevel = mid]
            /\ safFactor' = Val(SolverFactor(testInputs'))
            /\ IF Val(CloseEnough(safFactor', inputs.targetSafetyFactor))
               THEN /\ Solved("waterLevel", mid)
                    /\ UNCHANGED <<low, high, mid, iterations>>
               ELSE /\ IF Val(Gt(safFactor', inputs.targetSafetyFactor))
                       THEN low' = mid /\ high' = high
                       ELSE low' = low /\ high' = mid
                    /\ mid' = Val(Div(Add(low', high'), Two))
                    /\ iterations' = iterations + 1
                    /\ UNCHANGED <<pc, modifiedInputs, solvedParameter,
                                   calculationSteps, results>>
       ELSE /\ Solved("waterLevel", mid)
            /\ UNCHANGED <<low, high, mid, iterations, safFactor, testInputs>>
    /\ inputs' = Original(inputs, modifiedInputs')

\* one pass through the while loop of solveForBaseWidth, or its exit
solveForBaseWidth ==
    /\ pc = "solveForBaseWidth"
    /\ UNCHANGED outside
    /\ IF iterations < maxIterations
       THEN /\ testInputs' =
                [inputs EXCEPT !.baseWidth =
                    Val(Cond(Le(mid, Zero), Q(1, 10), mid))]
            /\ safFactor' = Val(SolverFactor(testInputs'))
            /\ IF Val(CloseEnough(safFactor', inputs.targetSafetyFactor))
               THEN /\ Solved("baseWidth", testInputs'.baseWidth)
                    /\ mid' = testInputs'.baseWidth
                    /\ UNCHANGED <<low, high, iterations>>
               ELSE /\ IF Val(Lt(safFactor', inputs.targetSafetyFactor))
                       THEN low' = testInputs'.baseWidth /\ high' = high
                       ELSE low' = low /\ high' = testInputs'.baseWidth
                    /\ mid' = Val(Div(Add(low', high'), Two))
                    /\ iterations' = iterations + 1
                    /\ UNCHANGED <<pc, modifiedInputs, solvedParameter,
                                   calculationSteps, results>>
       ELSE /\ Solved("baseWidth", mid)
            /\ UNCHANGED <<low, high, mid, iterations, safFactor, testInputs>>
    /\ inputs' = Original(inputs, modifiedInputs')

\* the rest of calculateDamStability: the statics on modifiedInputs, the
\* friction solve, the derivation steps and the return
Statics ==
    /\ pc = "statics"
    /\ UNCHANGED outside
    /\ UNCHANGED <<low, high, mid, iterations, safFactor, testInputs>>
    /\ Return(Returned(inputs, modifiedInputs, solvedParameter, calculationSteps))
    /\ inputs' = Original(inputs, modifiedInputs')

\* handleSubmit of the Calculator form: navigate('/results') follows the
\* call inside the try block, and a throw goes to the catch, which only
\* reports the error
Navigates == pc = "returned"

(***************************************************************************)
(* The inputs of the calls checked.  Base widths, uplift heads and targets *)
(* range over small integer grids on a dam of unit height; the densities   *)
(* are small integers and the mass density of water.  The calls of the     *)
(* worked example of the engine's documentation are added with its own     *)
(* numbers.                                                                *)
(***************************************************************************)
MaxLen == 2

MaxUplift == 1

MaxTarget == 2

Lengths == {Num(i) : i \in 1..MaxLen}

Uplifts == {Zero} \cup {Num(i) : i \in 1..MaxUplift}

Targets == {Num(i) : i \in 1..MaxTarget}

StructureTypes == {"rectangle", "triangle", "trapezoid"}

Half == [k |-> "fin", neg |-> FALSE, n |-> <<1>>, e |-> -1]

CrestWidths(st) == IF st = "trapezoid" THEN {undefined, Zero, Half} ELSE {undefined}

ConcreteDensities == {Num(4)}

\* a weight density, and the mass density of water
WaterDensities == {[density |-> Num(2), unit |-> "kN/m3"],
                   [density |-> Num(1000), unit |-> "kg/m3"]}

DamInputs(st, b, h, w, c, cd, wd, fc, hu, tu, us, sf, t, nf) ==
    [structureType |-> st, baseWidth |-> b, height |-> h, waterLevel |-> w,
     crestWidth |-> c, concreteDensity |-> cd,
     waterDensity |-> wd.density, waterDensityUnit |-> wd.unit,
     frictionCoefficient |-> fc, heelUplift |-> hu, toeUplift |-> tu,
     unitSystem |-> us, solveFor |-> sf, targetSafetyFactor |-> t,
     needsFrictionCalculation |-> nf]

\* the water levels of a dam of unit height
WaterLevels == {Zero, Half, One}

\* the uplift heads at the heel and at the toe
UpliftPairs == {[heel |-> Zero, toe |-> Zero]} \cup
               {[heel |-> Num(2 * i), toe |-> Zero] : i \in 1..MaxUplift}

\* what the caller asks about friction: the coefficient, the solve-for
\* selector with its target, and needsFrictionCalculation
FrictionVariants(fc) ==
    {[fc |-> undefined, sf |-> "none", t |-> undefined, nf |-> "true"],
     [fc |-> fc, sf |-> "none", t |-> undefined, nf |-> "true"],
     [fc |-> fc, sf |-> "none", t |-> undefined, nf |-> "false"],
     [fc |-> fc, sf |-> "none", t |-> undefined, nf |-> "undefined"],
     [fc |-> fc, sf |-> "frictionCoefficient", t |-> Num(MaxTarget), nf |-> "true"]}
    \cup {[fc |-> undefined, sf |-> "frictionCoefficient", t |-> t, nf |-> "true"] :
            t \in Targets}

\* calls that run no bisection: solveFor is 'none' or 'frictionCoefficient'
StaticsInputs(fc) ==
    UNION {{DamInputs(st, b, One, w, c, cd, wd, v.fc, u.heel, u.toe, "metric",
                      v.sf, v.t, v.nf) :
              w \in WaterLevels, c \in CrestWidths(st), v \in FrictionVariants(fc)} :
        st \in StructureTypes, b \in Lengths, cd \in ConcreteDensities,
        wd \in WaterDensities, u \in UpliftPairs}

\* calls in imperial units
ImperialInputs(fc) ==
    {DamInputs(st, One, One, One, Half, Num(4), [density |-> Num(2), unit |-> "kN/m3"],
               v.fc, Num(2), Zero, "imperial", v.sf, v.t, v.nf) :
        st \in StructureTypes, v \in FrictionVariants(fc)}

\* the worked example: a rectangle of base 10 and height 8 under 6 of water,
\* densities 23.5 and 9.81, friction 0.7; and its variations
ScenarioInputs(fc, cd, wd, t) ==
    {DamInputs(st, Num(10), Num(8), Num(6), undefined, cd,
               [density |-> wd, unit |-> "kN/m3"], fc, u, u, "metric",
               sf, t, nf) :
        st \in {"rectangle", "triangle"}, u \in Uplifts,
        sf \in {"none", "frictionCoefficient"}, nf \in {"true", "undefined"}}

\* calls that run a bisection, on a dam of unit height; the field solved
\* for holds a placeholder
SolverInputs(fc) ==
    UNION {{DamInputs(st, One, One, One, c, cd, [density |-> Num(2), unit |-> "kN/m3"],
                      fc, u, u, "metric", sf, t, "true") :
              c \in CrestWidths(st)} :
        st \in StructureTypes, cd \in ConcreteDensities, u \in Uplifts,
        sf \in {"waterLevel", "baseWidth"}, t \in Targets}

\* a height below a hundredth, 1/128
Shallow == [k |-> "fin", neg |-> FALSE, n |-> <<1>>, e |-> -7]

\* calls that run a bisection on a dam lower than a hundredth
ShallowInputs(fc) ==
    {DamInputs("rectangle", One, Shallow, Zero, undefined, Num(4),
               [density |-> Num(2), unit |-> "kN/m3"], fc, Zero, Zero, "metric",
               sf, One, "true") :
        sf \in {"waterLevel", "baseWidth"}}

\* a target less than 0.001 below 2: 2 - 1/2048
NearTwo == [k |-> "fin", neg |-> FALSE, n |-> <<4095>>, e |-> -11]

\* water-level solves whose factor, 2 / waterLevel^3 and 2 without water,
\* stays above the target and comes within 0.001 of it
NearTargetInputs(fc) ==
    {DamInputs("rectangle", One, One, One, undefined, Num(4),
               [density |-> Num(6), unit |-> "kN/m3"], fc, Zero, Zero, "metric",
               "waterLevel", NearTwo, "true")}

\* bisections with the density of water given as a mass density
MassDensityInputs(fc) ==
    {DamInputs("rectangle", One, One, One, undefined, Num(4),
               [density |-> Num(1000), unit |-> "kg/m3"], fc, One, One, "metric",
               sf, One, "true") :
        sf \in {"waterLevel", "baseWidth"}}

\* the calls checked, given the values of the literals 0.7, 23.5, 9.81, 1.2
AllInputs(fc, cd, wd, t) ==
    StaticsInputs(fc) \cup ImperialInputs(fc) \cup ScenarioInputs(fc, cd, wd, t)
    \cup SolverInputs(fc) \cup ShallowInputs(fc)
    \cup NearTargetInputs(fc) \cup MassDensityInputs(fc)

Init ==
    /\ inputs \in AllInputs(Val(Q(7, 10)), Val(Q(47, 2)), Val(Gravity), Val(Q(6, 5)))
    /\ pc = "call"
    /\ low = Zero
    /\ high = Zero
    /\ mid = Zero
    /\ iterations = 0
    /\ safFactor = undefined
    /\ testInputs = NoInputs
    /\ modifiedInputs = NoInputs
    /\ solvedParameter = NoParameter
    /\ calculationSteps = << >>
    /\ results = NoResults
    /\ form = NoForm
    /\ probe = NoProbe

Next ==
    \/ calculateDamStability
    \/ solveForWaterLevel
    \/ solveForBaseWidth
    \/ Statics

Spec == Init /\ [][Next]_vars

(***************************************************************************)
(* The Calculator form: src/src/pages/Calculator.tsx.  form holds the      *)
(* state of the component; one action per event handler, with the effect   *)
(* it triggers.  A submit that passes validation hands form.inputs to the  *)
(* engine: inputs is then the argument of the call and pc is "call".  The  *)
(* errors shown under the fields are left out: they are written by the     *)
(* submit and read by the markup only.                                     *)
(***************************************************************************)
engine == <<inputs, pc, low, high, mid, iterations, safFactor, testInputs,
            modifiedInputs, solvedParameter, calculationSteps, results>>

\* the default densities of the form: concrete 23.5 kN/m3 or 149.76 lb/ft3,
\* water 62.4 lb/ft3 or the default of the metric unit
MetricConcreteDensity == Val(Q(47, 2))
ImperialConcreteDensity == Val(Q(14976, 100))
ImperialWaterDensity == Val(Q(624, 10))
DefaultFriction == Val(Q(7, 10))
MetricWaterDensity == [unit \in {"kN/m3", "kg/m3"} |-> Val(getDefaultWaterDensity(unit))]

\* useState: the first render
InitialForm ==
    [mounted |-> TRUE,
     structureType |-> "rectangle",
     unitSystem |-> "metric",
     waterDensityUnit |-> "kN/m3",
     advancedMode |-> FALSE,
     solveForMode |-> FALSE,
     inputs |->
        DamInputs("rectangle", undefined, undefined, undefined, undefined,
                  MetricConcreteDensity,
                  [density |-> MetricWaterDensity["kN/m3"], unit |-> "kN/m3"],
                  DefaultFriction, Zero, Zero, "metric", "none", undefined,
                  "undefined")]

setAdvancedMode(checked) ==
    /\ form.mounted /\ pc = "idle"
    /\ form' = [form EXCEPT !.advancedMode = checked]
    /\ UNCHANGED <<engine, probe>>

\* the switch is rendered in advanced mode
setSolveForMode(checked) ==
    /\ form.mounted /\ pc = "idle"
    /\ form.advancedMode
    /\ form' = [form EXCEPT !.solveForMode = checked]
    /\ UNCHANGED <<engine, probe>>

handleStructureChange(type) ==
    /\ form.mounted /\ pc = "idle"
    /\ form' = [form EXCEPT !.structureType = type,
                                  !.inputs.structureType = type]
    /\ UNCHANGED <<engine, probe>>

handleUnitSystemChange(system) ==
    /\ form.mounted /\ pc = "idle"
    /\ form' = [form EXCEPT
          !.unitSystem = system,
          !.inputs.concreteDensity =
              IF system = "metric" THEN MetricConcreteDensity ELSE ImperialConcreteDensity,
          !.inputs.waterDensity =
              IF system = "metric"
              THEN MetricWaterDensity[form.waterDensityUnit]
              ELSE ImperialWaterDensity,
          !.inputs.unitSystem = system]
    /\ UNCHANGED <<engine, probe>>

\* the effect on [waterDensityUnit]: converts the density and stores the
\* unit when there is a truthy density in another unit
UnitEffect(inp, unit) ==
    IF Truthy(inp.waterDensity) /\ inp.waterDensityUnit # unit
    THEN [inp EXCEPT
            !.waterDensity =
                Val(convertWaterDensity(inp.waterDensity, inp.waterDensityUnit, unit)),
            !.waterDensityUnit = unit]
    ELSE inp

\* the unit select, shown in metric only, and the effect that follows the
\* render
handleWaterDensityUnitChange(unit) ==
    /\ form.mounted /\ pc = "idle"
    /\ form.unitSystem = "metric"
    /\ unit # form.waterDensityUnit
    /\ form' = [form EXCEPT
          !.waterDensityUnit = unit,
          !.inputs = UnitEffect(form.inputs, unit)]
    /\ UNCHANGED <<engine, probe>>

\* the fields of the form that take a number
Fields == {"baseWidth", "height", "waterLevel", "crestWidth", "waterDensity",
           "targetSafetyFactor"}

\* the field is rendered and not disabled
Editable(f, name) ==
    CASE name = "baseWidth" -> ~(f.solveForMode /\ f.inputs.solveFor = "baseWidth")
      [] name = "waterLevel" -> ~(f.solveForMode /\ f.inputs.solveFor = "waterLevel")
      [] name = "crestWidth" -> f.structureType = "trapezoid"
      [] name = "targetSafetyFactor" ->
            f.advancedMode /\ f.solveForMode /\ f.inputs.solveFor # "none"
      [] OTHER -> TRUE

\* what the user types into a field: nothing (the field is cleared) or a
\* number
Typed(name) ==
    CASE name = "baseWidth" -> {undefined, Zero, One}
      [] name = "height" -> {undefined, One}
      [] name = "waterLevel" -> {undefined, One, Num(2)}
      [] name = "crestWidth" -> {undefined, Half}
      [] name = "waterDensity" -> {undefined, Num(1000)}
      [] name = "targetSafetyFactor" -> {undefined, Num(2)}

\* value === '' stores undefined, a number is stored as parsed
handleInputChange(name, value) ==
    /\ form.mounted /\ pc = "idle"
    /\ Editable(form, name)
    /\ form' = [form EXCEPT !.inputs[name] = value]
    /\ UNCHANGED <<engine, probe>>

\* the select is rendered in advanced mode with the solve-for switch on
handleSolveForChange(value) ==
    /\ form.mounted /\ pc = "idle"
    /\ form.advancedMode /\ form.solveForMode
    /\ form' = [form EXCEPT !.inputs.solveFor = value]
    /\ UNCHANGED <<engine, probe>>

\* the fields validateInputs requires
requiredFields(f) ==
    (({"baseWidth", "height", "waterLevel", "concreteDensity", "waterDensity"}
      \cup (IF ~f.solveForMode \/ f.inputs.solveFor # "frictionCoefficient"
            THEN {"frictionCoefficient"} ELSE {})
      \cup (IF f.solveForMode /\ f.inputs.solveFor # "none"
            THEN {"targetSafetyFactor"} ELSE {})
      \cup (IF f.structureType = "trapezoid" THEN {"crestWidth"} ELSE {}))
     \ (IF f.solveForMode /\ f.inputs.solveFor \in
              {"waterLevel", "baseWidth", "frictionCoefficient"}
        THEN {f.inputs.solveFor} ELSE {}))

\* the keys of newErrors
newErrors(f) ==
    {field \in requiredFields(f) : f.inputs[field] = undefined}
    \cup (IF /\ Truthy(f.inputs.waterLevel)
             /\ Truthy(f.inputs.height)
             /\ Val(Gt(f.inputs.waterLevel, f.inputs.height))
             /\ f.inputs.solveFor # "waterLevel"
          THEN {"waterLevel"} ELSE {})

validateInputs(f) == newErrors(f) = {}

\* the submit: with errors nothing but the error display changes; without,
\* the engine is called on the inputs of the form
handleSubmit ==
    /\ form.mounted /\ pc = "idle"
    /\ IF validateInputs(form)
       THEN /\ inputs' = form.inputs
            /\ pc' = "call"
            /\ UNCHANGED form
            /\ UNCHANGED <<low, high, mid, iterations, safFactor, testInputs,
                           modifiedInputs, solvedParameter, calculationSteps,
                           results, probe>>
       ELSE UNCHANGED vars

FormInit ==
    /\ form = InitialForm
    /\ probe = NoProbe
    /\ inputs = NoInputs
    /\ pc = "idle"
    /\ low = Zero
    /\ high = Zero
    /\ mid = Zero
    /\ iterations = 0
    /\ safFactor = undefined
    /\ testInputs = NoInputs
    /\ modifiedInputs = NoInputs
    /\ solvedParameter = NoParameter
    /\ calculationSteps = << >>
    /\ results = NoResults

FormNext ==
    \/ \E checked \in BOOLEAN : setAdvancedMode(checked)
    \/ \E checked \in BOOLEAN : setSolveForMode(checked)
    \/ \E type \in {"rectangle", "trapezoid"} : handleStructureChange(type)
    \/ \E system \in {"metric", "imperial"} : handleUnitSystemChange(system)
    \/ \E unit \in {"kN/m3", "kg/m3"} : handleWaterDensityUnitChange(unit)
    \/ \E name \in Fields : \E value \in Typed(name) : handleInputChange(name, value)
    \/ \E value \in {"none", "waterLevel", "baseWidth", "frictionCoefficient"} :
          handleSolveForChange(value)
    \/ handleSubmit

FormSpec == FormInit /\ [][FormNext]_vars

(***************************************************************************)
(* The exported functions called on their own: probe holds the arguments   *)
(* of one call and, once the call is made, what it returned.               *)
(***************************************************************************)

\* the unit strings of a call: the two of WaterDensityUnit and one that
\* is neither
Units == {"kN/m3", "kg/m3", "lb/ft3"}

Densities == {Zero, One, Num(2), Val(Gravity), Val(Q(624, 10)), Num(1000)}

\* 2^-20, a crest close to none
Tiny == [k |-> "fin", neg |-> FALSE, n |-> <<1>>, e |-> -20]

\* positive base widths, heights and crest widths
BaseWidths == {Val(Q(1, 10)), One, Val(Q(5, 2))}

Heights == {Val(Q(3, 10)), One, Num(7)}

Crests == {Tiny, Val(Q(1, 10)), One}

ConvertProbes ==
    {[fn |-> "convertWaterDensity", density |-> d, fromUnit |-> f, toUnit |-> t,
      applied |-> FALSE, result |-> undefined] :
        d \in Densities, f \in Units, t \in Units}

NoVolumes ==
    [rectangle |-> undefined, triangle |-> undefined, trapezoid |-> undefined,
     level |-> undefined]

VolumeProbes ==
    {[fn |-> "calculateVolume", baseWidth |-> b, height |-> h, crestWidth |-> c,
      applied |-> FALSE, result |-> NoVolumes] :
        b \in BaseWidths, h \in Heights, c \in Crests}

\* the fields of DamInputs calculateVolume reads
Profile(st, b, h, c) ==
    [structureType |-> st, baseWidth |-> b, height |-> h, crestWidth |-> c]

\* one call of convertWaterDensity
applyConvertWaterDensity ==
    /\ probe.fn = "convertWaterDensity" /\ ~probe.applied
    /\ probe' = [probe EXCEPT
          !.applied = TRUE,
          !.result = Val(convertWaterDensity(probe.density, probe.fromUnit,
                                             probe.toUnit))]
    /\ UNCHANGED <<engine, form>>

\* calculateVolume on the three profiles of one base width and height, and on
\* the trapezoid whose crest is as wide as its base
applyCalculateVolume ==
    /\ probe.fn = "calculateVolume" /\ ~probe.applied
    /\ probe' = [probe EXCEPT
          !.applied = TRUE,
          !.result =
             [rectangle |-> Val(calculateVolume(Profile("rectangle",
                   probe.baseWidth, probe.height, undefined))),
              triangle |-> Val(calculateVolume(Profile("triangle",
                   probe.baseWidth, probe.height, undefined))),
              trapezoid |-> Val(calculateVolume(Profile("trapezoid",
                   probe.baseWidth, probe.height, probe.crestWidth))),
              level |-> Val(calculateVolume(Profile("trapezoid",
                   probe.baseWidth, probe.height, probe.baseWidth)))]]
    /\ UNCHANGED <<engine, form>>

PureInit ==
    /\ probe \in ConvertProbes \cup VolumeProbes
    /\ form = NoForm
    /\ inputs = NoInputs
    /\ pc = "idle"
    /\ low = Zero
    /\ high = Zero
    /\ mid = Zero
    /\ iterations = 0
    /\ safFactor = undefined
    /\ testInputs = NoInputs
    /\ modifiedInputs = NoInputs
    /\ solvedParameter = NoParameter
    /\ calculationSteps = << >>
    /\ results = NoResults

PureNext ==
    \/ applyConvertWaterDensity
    \/ applyCalculateVolume

PureSpec == PureInit /\ [][PureNext]_vars

(***************************************************************************)
(* What is checked of the engine.                                          *)
(***************************************************************************)
\* the call has returned its results
Returns == pc = "returned"

\* the call was asked to solve for `name` with a truthy target
Solves(name) == SolveActive(inputs) /\ solveForOf(inputs) = name

\* the overturning factor the orchestrator reports for the inputs inp
OverturningAt(inp) ==
    calculateOverturningFactor(calculateIntermediateResults(inp).rightingMoment,
                               calculateIntermediateResults(inp).overturningMoment)

\* points of the water-level bracket [0, height]
WaterLevelPoints(inp) == {Zero, Val(Div(inp.height, Two)), inp.height}

\* points of the base-width bracket [0.1, 10 * height]
BaseWidthPoints(inp) ==
    {Val(Q(1, 10)), Half, One, Num(2), Val(Mul(inp.height, Num(10)))}

\* C1: when some water level of the bracket attains the target, the
\* overturning factor returned by a water-level solve is within 0.001 of
\* the target
C1_WaterLevelRoundTrip ==
    (/\ Returns
     /\ Solves("waterLevel")
     /\ \E w \in WaterLevelPoints(inputs) :
           Val(StrictEq(OverturningAt([inputs EXCEPT !.waterLevel = w]),
                        inputs.targetSafetyFactor)))
    => Val(CloseEnough(results.safetyFactorOverturning, inputs.targetSafetyFactor))

\* C2: when some base width of the bracket attains the target, the
\* overturning factor returned by a base-width solve is within 0.001 of
\* the target
C2_BaseWidthRoundTrip ==
    (/\ Returns
     /\ Solves("baseWidth")
     /\ \E b \in BaseWidthPoints(inputs) :
           Val(StrictEq(OverturningAt([inputs EXCEPT !.baseWidth = b]),
                        inputs.targetSafetyFactor)))
    => Val(CloseEnough(results.safetyFactorOverturning, inputs.targetSafetyFactor))

\* the overturning factor at x is at most the one at y
FactorLe(x, y) == Val(Le(OverturningAt(x), OverturningAt(y)))

\* C3: with the other inputs fixed the overturning factor is non-increasing
\* in waterLevel over [0, height] and non-decreasing in baseWidth over
\* [0.1, 10 * height]
C3_FactorMonotonic ==
    /\ (Returns /\ Solves("waterLevel")) =>
          \A w1, w2 \in WaterLevelPoints(inputs) :
             Val(Lt(w1, w2)) =>
                FactorLe([inputs EXCEPT !.waterLevel = w2],
                         [inputs EXCEPT !.waterLevel = w1])
    /\ (Returns /\ Solves("baseWidth")) =>
          \A b1, b2 \in BaseWidthPoints(inputs) :
             Val(Lt(b1, b2)) =>
                FactorLe([inputs EXCEPT !.baseWidth = b1],
                         [inputs EXCEPT !.baseWidth = b2])

\* the same number | undefined, NaN being the same as NaN
Same(x, y) == x = y

\* the reaction and moment fields of the results are those of ir
SameStatics(res, ir) ==
    \A f \in {"selfWeight", "hydrostaticUplift", "hydrostaticPressure",
              "verticalReaction", "horizontalReaction", "rightingMoment",
              "overturningMoment", "locationOfRy"} : Same(res[f], ir[f])

\* the sliding factor of the results res for the coefficient fc
SlidingWith(res, fc) ==
    Val(calculateSlidingSafetyFactor(res.verticalReaction, res.horizontalReaction,
                                     fc, "true"))

\* C4: when solve-for is active the reactions, moments and safety factors
\* returned are computed from the inputs with the solved value substituted;
\* the sliding factor after a friction solve uses the solved coefficient
C4_ResultsFromSubstituted ==
    (Returns /\ SolveActive(inputs)) =>
       /\ SameStatics(results, Values(calculateIntermediateResults(modifiedInputs)))
       /\ Same(results.safetyFactorOverturning, Val(OverturningAt(modifiedInputs)))
       /\ Solves("frictionCoefficient") =>
             Same(results.safetyFactorSliding,
                  SlidingWith(results, solvedParameter.value))

\* a friction solve has returned a finite coefficient for non-zero reactions
FrictionSolved ==
    /\ Returns
    /\ Solves("frictionCoefficient")
    /\ ~IsZero(results.horizontalReaction)
    /\ ~IsZero(results.verticalReaction)

\* the sliding factor of a second run with the solved coefficient
SlidingOfSolved == SlidingWith(results, solvedParameter.value)

\* C5 as stated: the sliding factor recomputed with the solved coefficient
\* is exactly the target
C5_FrictionExact ==
    FrictionSolved => Val(StrictEq(SlidingOfSolved, inputs.targetSafetyFactor))

\* 2^-50, four roundings of a double
RoundingError == [k |-> "fin", neg |-> FALSE, n |-> <<1>>, e |-> -50]

\* C5: the sliding factor recomputed with the solved coefficient, the
\* sliding computation being requested, equals the target up to the
\* rounding of the two products and two quotients: they differ by at most
\* target * 2^-50
C5_FrictionWithinRounding ==
    FrictionSolved =>
       Val(Le(Abs(Sub(SlidingOfSolved, inputs.targetSafetyFactor)),
              Mul(inputs.targetSafetyFactor, RoundingError)))

\* a friction solve whose round trip is inexact
C5_Witness ==
    FrictionSolved /\ ~Val(StrictEq(SlidingOfSolved, inputs.targetSafetyFactor))

\* C6: the uplift moment of the statics is the uplift force times the
\* centre of gravity of the profile
C6_UpliftMomentAtCentroid ==
    Returns =>
       Val(StrictEq(calculateIntermediateResults(modifiedInputs).upliftMoment,
                    Mul(results.hydrostaticUplift,
                        calculateIntermediateResults(modifiedInputs).centerOfGravity)))

\* (frictionCoefficient * verticalReaction) / horizontalReaction of the
\* results, for the coefficient the caller passed
SlidingOfInputs == SlidingWith(results, inputs.frictionCoefficient)

\* C7: the sliding factor is returned, with value
\* (frictionCoefficient * verticalReaction) / horizontalReaction, exactly
\* when the caller passed a friction coefficient and the horizontal
\* reaction is not zero; nothing else disables it
C7_SlidingIffCoefficient ==
    (Returns /\ ~IsZero(results.horizontalReaction)) =>
       IF inputs.frictionCoefficient.k = "undef"
       THEN results.safetyFactorSliding.k = "undef"
       ELSE /\ results.safetyFactorSliding.k # "undef"
            /\ Same(results.safetyFactorSliding, SlidingOfInputs)

\* C8: with a horizontal reaction of zero and a friction coefficient passed,
\* the sliding factor returned is undefined, never Infinity or NaN
C8_NoSlidingWithoutWater ==
    (/\ Returns
     /\ IsZero(results.horizontalReaction)
     /\ inputs.frictionCoefficient.k # "undef")
    => results.safetyFactorSliding.k = "undef"

\* C9: with a vertical reaction of zero the location of the resultant
\* returned is no number: neither a plain number such as 0, nor NaN, nor
\* an infinity
C9_DegenerateReactionDistinct ==
    (Returns /\ IsZero(results.verticalReaction))
    => results.locationOfRy.k = "undef"

\* a bisection loop has compared a factor with the target
Compared ==
    pc \in {"solveForWaterLevel", "solveForBaseWidth"} /\ safFactor.k # "undef"

\* C10: the overturning factor returned is rightingMoment /
\* overturningMoment, or rightingMoment / 1 when overturningMoment is 0, and
\* the factor a bisection loop compares with the target is the
\* overturning factor the orchestrator reports for the loop's test inputs
C10_SameFactor ==
    /\ Returns =>
          Same(results.safetyFactorOverturning,
               IF IsZero(results.overturningMoment)
               THEN Val(Div(results.rightingMoment, One))
               ELSE Val(Div(results.rightingMoment, results.overturningMoment)))
    /\ Compared => Same(safFactor, Val(OverturningAt(testInputs)))

\* a loop has compared a factor computed with uplift
C10_Witness == Compared /\ iterations = 2 /\ ~IsZero(testInputs.heelUplift)

\* the call is over: it returned or it threw
Over == pc \in {"returned", "threw"}

\* the most steps the call can still take: the entry, one step per loop
\* iteration left and the loop's exit, the statics
StepsLeft ==
    CASE pc = "call" -> 100 + 3
      [] pc \in {"solveForWaterLevel", "solveForBaseWidth"} -> 100 - iterations + 2
      [] pc = "statics" -> 1
      [] OTHER -> 0

\* C11: a bisection loop runs at most 100 iterations, does not go on after
\* a midpoint whose factor is within 0.001 of the target, and hands a finite
\* number to the caller; every step of the call brings its end nearer, and
\* the call throws only for a missing crest width, before any iteration
C11_SolversTerminate ==
    /\ [](/\ iterations <= 100
          /\ StepsLeft >= 0
          /\ Compared => ~Val(CloseEnough(safFactor, inputs.targetSafetyFactor))
          /\ pc = "threw" => CrestWidthMissing(inputs) /\ iterations = 0
          /\ pc \in {"statics", "returned"} /\ SolveActive(inputs)
                /\ solveForOf(inputs) \in {"waterLevel", "baseWidth"}
                => IsFin(solvedParameter.value))
    /\ [][StepsLeft' < StepsLeft]_vars

\* a solve that returned after all its iterations without converging
C11_Witness ==
    /\ Returns
    /\ Solves("baseWidth")
    /\ iterations = maxIterations
    /\ ~Val(CloseEnough(results.safetyFactorOverturning, inputs.targetSafetyFactor))

\* low <= mid <= high within [least, most]
Bracketed(least, most) ==
    /\ Val(Le(least, low))
    /\ Val(Le(low, mid))
    /\ Val(Le(mid, high))
    /\ Val(Le(high, most))

\* the bracket of the loop the call is in, and of the value it handed back
BracketKept ==
    /\ pc = "solveForWaterLevel" => Bracketed(Zero, inputs.height)
    /\ pc = "solveForBaseWidth"
          => Bracketed(Val(Q(1, 10)), Val(Mul(inputs.height, Num(10))))
    /\ pc \in {"statics", "returned"} /\ Solves("waterLevel")
          => /\ Val(Le(Zero, solvedParameter.value))
             /\ Val(Le(solvedParameter.value, inputs.height))
    /\ pc \in {"statics", "returned"} /\ Solves("baseWidth")
          => /\ Val(Le(Q(1, 10), solvedParameter.value))
             /\ Val(Le(solvedParameter.value, Mul(inputs.height, Num(10))))

\* C12 as stated: for every positive height the loops keep
\* 0 <= low <= mid <= high <= height and 0.1 <= low <= mid <= high <=
\* 10 * height, and the value returned lies in the bracket
C12_BracketKept == Val(Gt(inputs.height, Zero)) => BracketKept

\* C12: the same for every height of at least 0.01, where the base-width
\* bracket [0.1, 10 * height] is not empty
C12_BracketKeptFromHundredth ==
    Val(Le(Q(1, 100), inputs.height)) => BracketKept

\* a base-width loop that has moved a bound of a bracket that is not empty
C12_Witness ==
    /\ pc = "solveForBaseWidth"
    /\ iterations = 3
    /\ Val(Le(Q(1, 100), inputs.height))
    /\ low # Val(Q(1, 10))

\* the ends of the bracket of the solver `name`
BracketLow(name) == IF name = "waterLevel" THEN Zero ELSE Val(Q(1, 10))

BracketHigh(name) ==
    IF name = "waterLevel" THEN inputs.height ELSE Val(Mul(inputs.height, Num(10)))

\* the overturning factor with the field solved for set to x
FactorWith(name, x) ==
    OverturningAt(IF name = "waterLevel"
                  THEN [inputs EXCEPT !.waterLevel = x]
                  ELSE [inputs EXCEPT !.baseWidth = x])

BracketPoints(name) ==
    IF name = "waterLevel" THEN WaterLevelPoints(inputs) ELSE BaseWidthPoints(inputs)

\* the factor is above the target at the points of the bracket, or below it
FactorAbove(name) ==
    \A x \in BracketPoints(name) :
       Val(Gt(FactorWith(name, x), inputs.targetSafetyFactor))

FactorBelow(name) ==
    \A x \in BracketPoints(name) :
       Val(Lt(FactorWith(name, x), inputs.targetSafetyFactor))

\* the same, by the tolerance or more
FactorClearlyAbove(name) ==
    \A x \in BracketPoints(name) :
       Val(Le(tolerance, Sub(FactorWith(name, x), inputs.targetSafetyFactor)))

FactorClearlyBelow(name) ==
    \A x \in BracketPoints(name) :
       Val(Le(tolerance, Sub(inputs.targetSafetyFactor, FactorWith(name, x))))

\* the water-level loop raises low when the factor is above the target, the
\* base-width loop when it is below
LowMoves(name, above) == (name = "waterLevel") = above

TwoTo100 == [k |-> "fin", neg |-> FALSE, n |-> <<1>>, e |-> 100]

\* only one bound has moved, no error, and the loop ends after its 100
\* iterations within width / 2^100 of the end it moved towards
RunsOut(name, above) ==
    /\ pc # "threw"
    /\ pc \in {"solveForWaterLevel", "solveForBaseWidth"} =>
          IF LowMoves(name, above)
          THEN high = BracketHigh(name)
          ELSE low = BracketLow(name)
    /\ pc \in {"statics", "returned"} =>
          /\ iterations = 100
          /\ Val(Le(Abs(Sub(solvedParameter.value,
                            IF LowMoves(name, above)
                            THEN BracketHigh(name) ELSE BracketLow(name))),
                    Div(Abs(Sub(BracketHigh(name), BracketLow(name))), TwoTo100)))

\* C13 as stated: when the factor is above the target on the whole bracket,
\* or below it on the whole bracket, every iteration moves the same bound,
\* all 100 iterations run, the value returned is within width / 2^100 of
\* that end of the bracket, and no error is raised
C13_UnreachableRunsOut ==
    \A name \in {"waterLevel", "baseWidth"} :
       (Solves(name) /\ ~CrestWidthMissing(inputs)) =>
          /\ RunsOut(name, TRUE) \/ ~FactorAbove(name)
          /\ RunsOut(name, FALSE) \/ ~FactorBelow(name)

\* C13: the same when the factor stays at least 0.001 away from the target
C13_ClearlyUnreachableRunsOut ==
    \A name \in {"waterLevel", "baseWidth"} :
       (Solves(name) /\ ~CrestWidthMissing(inputs)) =>
          /\ RunsOut(name, TRUE) \/ ~FactorClearlyAbove(name)
          /\ RunsOut(name, FALSE) \/ ~FactorClearlyBelow(name)

\* a solve that returned with the factor clearly on one side of the target
C13_Witness ==
    /\ Returns
    /\ \E name \in {"waterLevel", "baseWidth"} :
          /\ Solves(name)
          /\ FactorClearlyAbove(name) \/ FactorClearlyBelow(name)

SolveTitles ==
    [waterLevel |-> "Solve for Required Water Level",
     baseWidth |-> "Solve for Required Base Width",
     frictionCoefficient |-> "Solve for Required Friction Coefficient"]

\* C14: a call that solves with a target above 0 returns solvedParameter
\* named after the selector, and its first step is the solve step, with
\* the value of solvedParameter, followed by the volume step; a call with
\* solveFor 'none' returns no solvedParameter and the volume step first
C14_SolveStepFirst ==
    Returns =>
       /\ (solveForOf(inputs) # "none" /\ Val(Gt(inputs.targetSafetyFactor, Zero))) =>
             /\ results.solvedParameter.name = solveForOf(inputs)
             /\ Len(results.calculationSteps) >= 2
             /\ results.calculationSteps[1].title = SolveTitles[solveForOf(inputs)]
             /\ results.calculationSteps[1].value = results.solvedParameter.value
             /\ results.calculationSteps[2].title = "Calculate Dam Volume"
       /\ solveForOf(inputs) = "none" =>
             /\ results.solvedParameter = NoParameter
             /\ results.calculationSteps[1].title = "Calculate Dam Volume"

\* a call that solved for the friction coefficient returned
C14_Witness ==
    /\ Returns
    /\ Solves("frictionCoefficient")
    /\ results.solvedParameter.value # inputs.targetSafetyFactor

\* the titles of the standard derivation records, in the order stated
StandardTitles ==
    << "Calculate Dam Volume",
       "Calculate Self Weight (W)",
       "Calculate Hydrostatic Uplift",
       "Calculate Hydrostatic Pressure",
       "Calculate Vertical Reaction (Ry)",
       "Calculate Horizontal Reaction (Rx)",
       "Calculate Center of Gravity",
       "Calculate Righting Moment (RM)",
       "Calculate Pressure Moment",
       "Calculate Uplift Moment",
       "Calculate Total Overturning Moment (OM)",
       "Calculate Location of Resultant (Ry)",
       "Calculate Factor of Safety against Sliding",
       "Calculate Factor of Safety against Overturning" >>

IsStandard(step) == \E p \in DOMAIN StandardTitles : StandardTitles[p] = step.title

\* the place of a standard record in the order stated
Place(step) == CHOOSE p \in DOMAIN StandardTitles : StandardTitles[p] = step.title

\* the places in the trace that hold standard records
StandardPlaces(steps) == {i \in DOMAIN steps : IsStandard(steps[i])}

\* C15: in every trace returned, any two standard records stand in the
\* order volume, self weight, hydrostatic uplift, hydrostatic pressure,
\* vertical reaction, horizontal reaction, center of gravity, righting
\* moment, pressure moment, uplift moment, total overturning moment,
\* location of resultant, sliding factor, overturning factor
C15_FixedOrder ==
    Returns =>
       \A i, j \in StandardPlaces(results.calculationSteps) :
          i < j => Place(results.calculationSteps[i]) < Place(results.calculationSteps[j])

\* a trace with all fourteen standard records after a solve step
C15_Witness ==
    /\ Returns
    /\ Len(results.calculationSteps) = Len(StandardTitles) + 1
    /\ Cardinality(StandardPlaces(results.calculationSteps)) = Len(StandardTitles)

\* C16 as stated: every trace returned holds an uplift-moment record, and
\* the number of its standard records is 14 with the sliding factor and
\* 13 without
C16_EveryStepRecorded ==
    Returns =>
       /\ \E i \in DOMAIN results.calculationSteps :
             results.calculationSteps[i].title = "Calculate Uplift Moment"
       /\ Cardinality(StandardPlaces(results.calculationSteps))
             = IF SlidingWanted(inputs) THEN 14 ELSE 13

\* the inputs inp with the water density given in kN/m3: d * 9.81 / 1000
InKiloNewtons(inp) ==
    [inp EXCEPT !.waterDensity =
                    Val(convertWaterDensity(inp.waterDensity, "kg/m3", "kN/m3")),
                !.waterDensityUnit = "kN/m3"]

\* the call ran a bisection
Bisects == Solves("waterLevel") \/ Solves("baseWidth")

\* solvedParameter and calculationSteps as the bisection branch left them
SolvedByBranch == IF Bisects THEN results.solvedParameter ELSE NoParameter

StepsByBranch == IF Bisects THEN << results.calculationSteps[1] >> ELSE << >>

\* what the call returns on the inputs `other`, the bisection having
\* returned the same value
ResultsFor(other) ==
    Returned(other,
             IF Solves("waterLevel")
             THEN [other EXCEPT !.waterLevel = results.solvedParameter.value]
             ELSE IF Solves("baseWidth")
             THEN [other EXCEPT !.baseWidth = results.solvedParameter.value]
             ELSE other,
             SolvedByBranch, StepsByBranch).results

\* C17: a call with the water density d in kg/m3 computes, at every
\* midpoint of a bisection and in the results it returns, what the call
\* with d * 9.81 / 1000 in kN/m3 computes
C17_DensityNormalized ==
    inputs.waterDensityUnit = "kg/m3" =>
       /\ Compared => safFactor = Val(SolverFactor(InKiloNewtons(testInputs)))
       /\ Returns => results = ResultsFor(InKiloNewtons(inputs))

\* a bisection on a mass density has compared a factor computed with
\* uplift and water pressure
C17_Witness ==
    /\ Compared
    /\ inputs.waterDensityUnit = "kg/m3"
    /\ iterations = 2
    /\ ~IsZero(testInputs.waterLevel)

\* the inputs inp in the other unit system
OtherUnits(inp) ==
    [inp EXCEPT !.unitSystem = IF @ = "metric" THEN "imperial" ELSE "metric"]

\* what of a result is not a unit label or a mass-equivalent: the forces,
\* reactions, moments, resultant location, safety factors, solved
\* parameter, and the titles and values of the steps
Formulas(res) ==
    [selfWeight |-> res.selfWeight,
     hydrostaticUplift |-> res.hydrostaticUplift,
     hydrostaticPressure |-> res.hydrostaticPressure,
     verticalReaction |-> res.verticalReaction,
     horizontalReaction |-> res.horizontalReaction,
     rightingMoment |-> res.rightingMoment,
     overturningMoment |-> res.overturningMoment,
     locationOfRy |-> res.locationOfRy,
     safetyFactorSliding |-> res.safetyFactorSliding,
     safetyFactorOverturning |-> res.safetyFactorOverturning,
     solvedParameter |-> res.solvedParameter,
     steps |-> [i \in DOMAIN res.calculationSteps |->
                  [title |-> res.calculationSteps[i].title,
                   value |-> res.calculationSteps[i].value]]]

\* C18: a call computes, at every midpoint of a bisection and in the
\* forces, reactions, moments, resultant location, safety factors, solved
\* parameter and step values it returns, what the call that differs only
\* in unitSystem computes
C18_UnitSystemDisplayOnly ==
    /\ Compared => safFactor = Val(SolverFactor(OtherUnits(testInputs)))
    /\ Returns => Formulas(results) = Formulas(ResultsFor(OtherUnits(inputs)))

\* an imperial call returned, and its mass-equivalent differs from the
\* metric one
C18_Witness ==
    /\ Returns
    /\ inputs.unitSystem = "imperial"
    /\ results.massMeasurements # ResultsFor(OtherUnits(inputs)).massMeasurements
    /\ results.calculationSteps[1].unit # "m2"

\* C19: for a trapezoid without crestWidth the call throws, on the solve
\* paths before any iteration of a bisection, returns no results, and the
\* form does not navigate to the results page
C19_MissingCrestAborts ==
    (inputs.structureType = "trapezoid" /\ inputs.crestWidth = undefined) =>
       /\ pc \in {"call", "threw"}
       /\ iterations = 0
       /\ safFactor = undefined
       /\ solvedParameter = NoParameter
       /\ calculationSteps = << >>
       /\ results = NoResults
       /\ ~Navigates

\* a base-width solve of a trapezoid without crestWidth has thrown
C19_Witness ==
    /\ pc = "threw"
    /\ Solves("baseWidth")
    /\ inputs.crestWidth = undefined

\* the call of the worked example: a rectangle of base 10 and height 8
\* under 6 of water, densities 23.5 and 9.81 kN/m3, friction 0.7, no uplift
WorkedExample ==
    /\ inputs.structureType = "rectangle"
    /\ inputs.baseWidth = Num(10)
    /\ inputs.height = Num(8)
    /\ inputs.waterLevel = Num(6)
    /\ inputs.concreteDensity = Val(Q(47, 2))
    /\ inputs.waterDensity = Val(Gravity)
    /\ inputs.waterDensityUnit = "kN/m3"
    /\ inputs.frictionCoefficient = Val(Q(7, 10))
    /\ IsZero(inputs.heelUplift)
    /\ IsZero(inputs.toeUplift)
    /\ solveForOf(inputs) = "none"

\* the numbers of the worked example other than the sliding factor
WorkedNumbers ==
    /\ results.selfWeight = Num(1880)
    /\ results.hydrostaticPressure = Val(Q(17658, 100))
    /\ results.verticalReaction = Num(1880)
    /\ results.horizontalReaction = Val(Q(17658, 100))
    /\ results.rightingMoment = Num(9400)
    /\ results.overturningMoment = Val(Q(35316, 100))
    /\ results.safetyFactorOverturning = Val(Div(Num(9400), Q(35316, 100)))

\* C20 as stated: the call of the worked example returns selfWeight 1880,
\* hydrostaticPressure 176.58, verticalReaction 1880, horizontalReaction
\* 176.58, rightingMoment 9400, overturningMoment 353.16,
\* safetyFactorSliding 1316 / 176.58 and safetyFactorOverturning
\* 9400 / 353.16
C20_WorkedExample ==
    (Returns /\ WorkedExample) =>
       /\ WorkedNumbers
       /\ results.safetyFactorSliding = Val(Div(Num(1316), Q(17658, 100)))

WellFormed(inp) ==
    /\ Val(Gt(inp.baseWidth, Zero))
    /\ Val(Gt(inp.height, Zero))
    /\ Val(Gt(inp.waterLevel, Zero))
    /\ Val(Gt(inp.concreteDensity, Zero))
    /\ Val(Gt(inp.waterDensity, Zero))
    /\ Val(Le(Zero, Default(inp.heelUplift, Zero)))
    /\ Val(Le(Zero, Default(inp.toeUplift, Zero)))
    /\ inp.structureType = "trapezoid" => Val(Gt(inp.crestWidth, Zero))

\* C29 as stated: a solve with a target above 0 on well-formed inputs
\* returns a finite solvedParameter.value
C29_SolvedValueFinite ==
    (/\ Returns
     /\ solveForOf(inputs) # "none"
     /\ Val(Gt(inputs.targetSafetyFactor, Zero))
     /\ WellFormed(inputs))
    => IsFin(results.solvedParameter.value)

\* C30: a trapezoid with crestWidth 0 throws as one without crestWidth
\* does, and no results are produced
C30_ZeroCrestThrows ==
    (inputs.structureType = "trapezoid" /\ inputs.crestWidth = Zero) =>
       /\ pc \in {"call", "threw"}
       /\ results = NoResults
       /\ calculationSteps = << >>

\* a call on a trapezoid with crestWidth 0 has thrown
C30_Witness ==
    /\ pc = "threw"
    /\ inputs.structureType = "trapezoid"
    /\ inputs.crestWidth = Zero
    /\ solveForOf(inputs) = "none"

\* the form has submitted: calculateDamStability is called on its inputs
Submitted == form.mounted /\ pc = "call"

\* the other of the two density units of the select
OtherUnit(unit) == IF unit = "kN/m3" THEN "kg/m3" ELSE "kN/m3"

\* the inputs of the form after the density unit is changed to the other
\* unit and back again, no other event in between
ToggledTwice(f) ==
    UnitEffect(UnitEffect(f.inputs, OtherUnit(f.waterDensityUnit)), f.waterDensityUnit)

\* C23: changing the density unit of the metric form to the other unit and
\* back, with a density in the field, restores the water density to within
\* the rounding of the four operations: they differ by at most
\* density * 2^-50
C23_ToggleRestores ==
    (/\ form.mounted
     /\ pc = "idle"
     /\ form.unitSystem = "metric"
     /\ form.inputs.waterDensity # undefined)
    => Val(Le(Abs(Sub(ToggledTwice(form).waterDensity, form.inputs.waterDensity)),
              Mul(Abs(form.inputs.waterDensity), RoundingError)))

\* C25: a submit whose water level is an input of the run, the engine not
\* solving for it, has a water level of at most the height
C25_FixedWaterLevelBelowHeight ==
    (/\ Submitted
     /\ ~(SolveActive(inputs) /\ solveForOf(inputs) = "waterLevel")
     /\ inputs.waterLevel # undefined
     /\ inputs.height # undefined)
    => ~Val(Gt(inputs.waterLevel, inputs.height))

\* the field the form is solving for
BeingSolved(f) == IF f.solveForMode THEN {f.inputs.solveFor} ELSE {}

\* C26: on a submit every required field is present and base width, height
\* and water level are strictly positive, the field being solved for
\* excepted
C26_ValidatedBeforeCall ==
    Submitted =>
       /\ \A name \in requiredFields(form) : inputs[name] # undefined
       /\ \A name \in {"baseWidth", "height", "waterLevel"} \ BeingSolved(form) :
             /\ inputs[name] # undefined
             /\ Val(Gt(inputs[name], Zero))

\* C27: on a submit with the solve-for switch off the engine does not
\* solve: the run has no solved parameter and no solve step
C27_SwitchOffNoSolve ==
    (Submitted /\ ~form.solveForMode) => ~SolveActive(inputs)

\* C28: on a submit of the metric form the density unit of the inputs is
\* the unit selected next to the density field
C28_UnitAsDisplayed ==
    (Submitted /\ form.unitSystem = "metric")
    => inputs.waterDensityUnit = form.waterDensityUnit

\* calculateVolume has been called on the probe
VolumeApplied == probe.fn = "calculateVolume" /\ probe.applied

\* C21: for positive base width b, height h and crest width c the volume of
\* every profile is positive, the triangle is exactly half the rectangle,
\* the trapezoid with c = b is the rectangle, and the trapezoid lies above
\* the triangle by at most c * h, which vanishes with c
C21_VolumeRelations ==
    VolumeApplied =>
       LET v == probe.result
       IN /\ Val(Gt(v.rectangle, Zero))
          /\ Val(Gt(v.triangle, Zero))
          /\ Val(Gt(v.trapezoid, Zero))
          /\ Val(StrictEq(Mul(v.triangle, Two), v.rectangle))
          /\ Val(StrictEq(v.level, v.rectangle))
          /\ Val(Le(v.triangle, v.trapezoid))
          /\ Val(Le(Sub(v.trapezoid, v.triangle),
                    Mul(probe.crestWidth, probe.height)))

\* a trapezoid of crest 2^-20 on a base that is not a power of two, strictly
\* above its triangle
C21_Witness ==
    /\ VolumeApplied
    /\ probe.crestWidth = Tiny
    /\ probe.baseWidth = Val(Q(1, 10))
    /\ Val(Gt(probe.result.trapezoid, probe.result.triangle))

\* convertWaterDensity has been called on the probe
ConvertApplied == probe.fn = "convertWaterDensity" /\ probe.applied

\* the two conversions of convertWaterDensity
Supported == {<<"kg/m3", "kN/m3">>, <<"kN/m3", "kg/m3">>}

\* C22: convertWaterDensity returns the density it is given when the two
\* units are equal, and for every pair of units other than kg/m3 to kN/m3
\* and kN/m3 to kg/m3
C22_NoConversion ==
    (ConvertApplied /\ <<probe.fromUnit, probe.toUnit>> \notin Supported)
    => probe.result = probe.density

\* a call from a unit the function does not know to one it knows
C22_Witness ==
    /\ ConvertApplied
    /\ probe.fromUnit = "lb/ft3"
    /\ probe.toUnit = "kN/m3"
    /\ probe.density = Num(1000)
    /\ probe.result = Num(1000)

====
